---------------------------- MODULE Spec2Model ----------------------------
(***************************************************************************)
(* Model of crates/support/src/merge_locales.rs: the resolution of the     *)
(* caller's file references (get_locales_files_path), the read of every    *)
(* resolved path (open_locales_files), the fold of the parsed documents    *)
(* into one serde_json::Value (get_merged_string) and the write of a       *)
(* value to a destination file (write_to_file).                            *)
(***************************************************************************)
EXTENDS Integers, Sequences, FiniteSets, TLC

(***************************************************************************)
(* Bounds of the model.                                                    *)
(***************************************************************************)
\* The largest number of file references a caller supplies.
MaxFiles == 3

(***************************************************************************)
(* serde_json::Value.  A Mapping holds a function from its keys to Values. *)
(***************************************************************************)
Null == [t |-> "null"]

Str(s) == [t |-> "string", s |-> s]

Num(n) == [t |-> "number", n |-> n]

Sequence(q) == [t |-> "sequence", q |-> q]

Mapping(m) == [t |-> "mapping", m |-> m]

EmptyMapping == Mapping([k \in {} |-> Null])

IsMapping(v) == v.t = "mapping"

Keys(v) == DOMAIN v.m

(***************************************************************************)
(* crate::merge_value(a, b): merge b into a.  Two Mappings merge key by    *)
(* key, recursively; in every other case b replaces a.                     *)
(***************************************************************************)
RECURSIVE merge_value(_, _)
merge_value(a, b) ==
    IF IsMapping(a) /\ IsMapping(b)
    THEN Mapping([k \in Keys(a) \cup Keys(b) |->
                    IF k \in Keys(a) /\ k \in Keys(b)
                    THEN merge_value(a.m[k], b.m[k])
                    ELSE IF k \in Keys(a) THEN a.m[k] ELSE b.m[k]])
    ELSE b

(***************************************************************************)
(* Paths.  A path is its parent directory and its file name, the name a    *)
(* sequence of the parts its dots separate: ./d/a.yml is                   *)
(* [parent |-> "d", name |-> <<"a", "yml">>].  Every path of the model has *)
(* a parent, so file_path.parent().unwrap() does not panic.                *)
(***************************************************************************)
MkPath(parent, name) == [parent |-> parent, name |-> name]

\* crate::get_extension(path): the part after the last dot, "" without one.
get_extension(path) ==
    IF Len(path.name) >= 2 THEN path.name[Len(path.name)] ELSE ""

\* The array all_support_ext of get_locales_files_path.
all_support_ext == <<"yml", "yaml", "json", "toml">>

IsSupported(ext) == \E j \in 1..Len(all_support_ext) : all_support_ext[j] = ext

\* file_parent_path.join("TODO.<ex>")
TodoPath(parent, ex) == MkPath(parent, <<"TODO", ex>>)

\* get_locales_files_path with the companion pushed after the supplied file.
get_locales_files_path_todo_last(fs) ==
    IF Len(fs) >= 2
    THEN SelectSeq(fs, LAMBDA p : IsSupported(get_extension(p)))
    ELSE LET file_path == fs[1]
             ext == get_extension(file_path)
             hits == SelectSeq(all_support_ext, LAMBDA ex : ext = ex)
         IN  <<file_path>>
                \o [j \in 1..Len(hits) |-> TodoPath(file_path.parent, hits[j])]

\* get_locales_files_path that takes the single-file branch on the number of
\* references left after filtering, not on the number supplied.
get_locales_files_path_len_after_filter(fs) ==
    LET kept == SelectSeq(fs, LAMBDA p : IsSupported(get_extension(p)))
    IN  IF Len(kept) >= 2 \/ (Len(fs) >= 2 /\ Len(kept) = 0)
        THEN kept
        ELSE LET file_path == IF Len(fs) >= 2 THEN kept[1] ELSE fs[1]
                 ext == get_extension(file_path)
                 hits == SelectSeq(all_support_ext, LAMBDA ex : ext = ex)
             IN  [j \in 1..Len(hits) |-> TodoPath(file_path.parent, hits[j])]
                    \o <<file_path>>

\* get_locales_files_path that keeps every reference of two or more.
get_locales_files_path_unfiltered(fs) ==
    IF Len(fs) >= 2
    THEN fs
    ELSE LET file_path == fs[1]
             ext == get_extension(file_path)
             hits == SelectSeq(all_support_ext, LAMBDA ex : ext = ex)
         IN  [j \in 1..Len(hits) |-> TodoPath(file_path.parent, hits[j])]
                \o <<file_path>>

(***************************************************************************)
(* get_locales_files_path(files), for a non-empty files.  Two or more      *)
(* references: those with a supported extension, in the order supplied.    *)
(* One reference: a TODO.<ex> path pushed for every supported ex equal to  *)
(* the reference's extension, then the reference itself.                   *)
(***************************************************************************)
get_locales_files_path(fs) ==
    IF Len(fs) >= 2
    THEN SelectSeq(fs, LAMBDA p : IsSupported(get_extension(p)))
    ELSE LET file_path == fs[1]
             ext == get_extension(file_path)
             hits == SelectSeq(all_support_ext, LAMBDA ex : ext = ex)
         IN  [j \in 1..Len(hits) |-> TodoPath(file_path.parent, hits[j])]
                \o <<file_path>>

(***************************************************************************)
(* Documents on disk.  The text of a file is the syntax it is written in   *)
(* and the Value it denotes; a text of syntax "bad" is malformed in every  *)
(* format and the empty text denotes nothing.                              *)
(***************************************************************************)
Text(syn, val) == [syn |-> syn, val |-> val]

BadText == Text("bad", Null)

EmptyText == Text("empty", Null)

NoFile == [kind |-> "missing"]

File(text) == [kind |-> "file", text |-> text]

\* The format an extension names: the adapter selected for it.
FormatOf(ext) ==
    CASE ext \in {"yml", "yaml"} -> "yaml"
      [] ext = "json" -> "json"
      [] ext = "toml" -> "toml"
      [] OTHER -> "unknown"

\* A YAML parser reads JSON text as well; otherwise a parser reads its own
\* syntax only.
Reads(format, syn) == syn = format \/ (format = "yaml" /\ syn = "json")

(***************************************************************************)
(* crate::parse_string_to_serde_json(content, ext): Ok(value), Err for a   *)
(* text the format's parser rejects, and fatal for an extension that names *)
(* no format, for which there is no adapter to invoke.                     *)
(***************************************************************************)
parse_string_to_serde_json(content, ext) ==
    IF FormatOf(ext) = "unknown"
    THEN [res |-> "fatal", val |-> Null]
    ELSE IF Reads(FormatOf(ext), content.syn)
         THEN [res |-> "ok", val |-> content.val]
         ELSE [res |-> "err", val |-> Null]

(***************************************************************************)
(* crate::open_file_to_string(path) on a disk: the text of the file.  It   *)
(* returns a String, so a failed read either panics or yields the empty    *)
(* text, the same way whichever path it is given.                          *)
(***************************************************************************)
open_file_to_string(disk, mode, path) ==
    IF disk[path].kind = "file"
    THEN [ok |-> TRUE, text |-> disk[path].text]
    ELSE IF mode = "panic"
         THEN [ok |-> FALSE, text |-> EmptyText]
         ELSE [ok |-> TRUE, text |-> EmptyText]

(***************************************************************************)
(* open_locales_files(entry): every path read, in order, each text paired  *)
(* with its path.                                                          *)
(***************************************************************************)
open_locales_files(disk, mode, entry) ==
    [j \in 1..Len(entry) |->
        [read |-> open_file_to_string(disk, mode, entry[j]), path |-> entry[j]]]

\* all_merged_value as get_merged_string declares it: Value::default().
InitialValue == Null

\* fold_step with the parsed value assigned over the accumulator, not merged.
fold_step_overwrite(acc, content, path) ==
    LET r == parse_string_to_serde_json(content, get_extension(path))
    IN  CASE r.res = "ok" -> [acc |-> r.val, error |-> "none"]
          [] r.res = "err" -> [acc |-> acc, error |-> "none"]
          [] OTHER -> [acc |-> acc, error |-> "UnknownFormat"]

\* fold_step with the arguments of merge_value exchanged.
fold_step_swapped(acc, content, path) ==
    LET r == parse_string_to_serde_json(content, get_extension(path))
    IN  CASE r.res = "ok" -> [acc |-> merge_value(r.val, acc), error |-> "none"]
          [] r.res = "err" -> [acc |-> acc, error |-> "none"]
          [] OTHER -> [acc |-> acc, error |-> "UnknownFormat"]

\* fold_step with a failed parse merged as the default Value (unwrap_or_default).
fold_step_default_on_err(acc, content, path) ==
    LET r == parse_string_to_serde_json(content, get_extension(path))
    IN  CASE r.res = "ok" -> [acc |-> merge_value(acc, r.val), error |-> "none"]
          [] r.res = "err" -> [acc |-> merge_value(acc, Null), error |-> "none"]
          [] OTHER -> [acc |-> acc, error |-> "UnknownFormat"]

\* fold_step that merges a parsed value only when it is a Mapping.
fold_step_mappings_only(acc, content, path) ==
    LET r == parse_string_to_serde_json(content, get_extension(path))
    IN  CASE r.res = "ok" /\ IsMapping(r.val) ->
                [acc |-> merge_value(acc, r.val), error |-> "none"]
          [] r.res = "fatal" -> [acc |-> acc, error |-> "UnknownFormat"]
          [] OTHER -> [acc |-> acc, error |-> "none"]

(***************************************************************************)
(* One iteration of the loop of get_merged_string: the text is parsed in   *)
(* the format of its path's extension and, when that gives Ok, merged into *)
(* the accumulator; an Err leaves the accumulator alone, and a panic of    *)
(* the parser ends the call.                                               *)
(***************************************************************************)
fold_step(acc, content, path) ==
    LET ext == get_extension(path)
        r == parse_string_to_serde_json(content, ext)
    IN  CASE r.res = "ok" -> [acc |-> merge_value(acc, r.val), error |-> "none"]
          [] r.res = "err" -> [acc |-> acc, error |-> "none"]
          [] OTHER -> [acc |-> acc, error |-> "UnknownFormat"]

(***************************************************************************)
(* The printers.  serde_json prints every Value and serde_yaml does too;   *)
(* TOML has no null and its document is a table, so toml::to_string_pretty *)
(* fails on a Value that holds a Null or is no Mapping.                    *)
(***************************************************************************)
RECURSIVE HasNull(_)
HasNull(v) ==
    CASE v.t = "null" -> TRUE
      [] v.t = "mapping" -> \E k \in Keys(v) : HasNull(v.m[k])
      [] v.t = "sequence" -> \E j \in 1..Len(v.q) : HasNull(v.q[j])
      [] OTHER -> FALSE

TomlPrints(v) == IsMapping(v) /\ ~HasNull(v)

(***************************************************************************)
(* convert_serde_to_string(value, format): the text of value in the format *)
(* (the YAML text with its leading --- removed); the unwrap of a printer's *)
(* failure and the unreachable!() of any other format panic.               *)
(***************************************************************************)
convert_serde_to_string(value, format) ==
    CASE format = "json" -> [ok |-> TRUE, text |-> Text("json", value)]
      [] format \in {"yaml", "yml"} -> [ok |-> TRUE, text |-> Text("yaml", value)]
      [] format = "toml" ->
            IF TomlPrints(value)
            THEN [ok |-> TRUE, text |-> Text("toml", value)]
            ELSE [ok |-> FALSE, text |-> EmptyText]
      [] OTHER -> [ok |-> FALSE, text |-> EmptyText]

(***************************************************************************)
(* The inputs of the model.                                                *)
(***************************************************************************)
\* File references a caller supplies.
Refs ==
    { MkPath("d", <<"a", "yml">>), MkPath("d", <<"b", "yaml">>),
      MkPath("d", <<"c", "json">>), MkPath("e", <<"t", "toml">>),
      MkPath("d", <<"n", "txt">>) }

RECURSIVE SeqsUpTo(_, _)
SeqsUpTo(S, n) ==
    IF n = 0 THEN {<<>>}
    ELSE LET shorter == SeqsUpTo(S, n - 1)
         IN  shorter \cup {Append(q, x) : q \in shorter, x \in S}

DocA ==
    Mapping([ns |-> Mapping([en |-> Str("a")]),
             k |-> Sequence(<<Str("x"), Str("y")>>),
             v |-> Num(2)])

DocB ==
    Mapping([ns |-> Mapping([zh |-> Str("b")]),
             k |-> Sequence(<<Str("z")>>)])

DocC == Mapping([ns |-> Str("s"), j |-> Mapping([en |-> Str("c")])])

DocD == Mapping([ns |-> Mapping([en |-> Str("c"), zh |-> Str("d")]), v |-> Num(3)])

\* What a file may hold.
Texts ==
    { Text("yaml", DocA), Text("yaml", DocC), Text("yaml", Null),
      Text("json", DocB), Text("json", Sequence(<<Str("x")>>)),
      Text("json", Str("x")),
      Text("toml", DocD), BadText }

Contents == {NoFile} \cup {File(t) : t \in Texts}

\* A text the parser of a format rejects: malformed text, or well-formed text
\* of another format.
Unreadable(format) ==
    CASE format = "json" -> Text("yaml", DocA)
      [] format = "toml" -> Text("json", DocB)
      [] OTHER -> BadText

\* What the file at a path may hold: nothing, a text its format's parser
\* rejects, or any text it reads.
ContentsAt(path) ==
    LET format == FormatOf(get_extension(path))
    IN  {NoFile, File(Unreadable(format))}
            \cup {File(t) : t \in {u \in Texts : Reads(format, u.syn)}}

\* The disks that hold, at each path of ps, what it may hold.
RECURSIVE DisksOver(_)
DisksOver(ps) ==
    IF ps = {} THEN {<<>>}
    ELSE LET p == CHOOSE x \in ps : TRUE
         IN  {(p :> c) @@ d : c \in ContentsAt(p), d \in DisksOver(ps \ {p})}

\* Values handed to write_to_file, and the names of its destination.
WriteValues ==
    { Null, EmptyMapping, Str("x"), DocA, DocD, merge_value(DocA, DocB),
      Mapping([k |-> Null]) }

Dests == Refs \cup {MkPath("d", <<"TODO", "yaml">>), MkPath("d", <<"out">>)}

Range(q) == {q[j] : j \in 1..Len(q)}

(***************************************************************************)
(* The state of a call of get_merged_string, and of a call of              *)
(* write_to_file.                                                          *)
(***************************************************************************)
VARIABLES
    files,      \* the references the caller supplies
    ioMode,     \* what a failed read did: "panic" or "empty"; "none" before one
    pc,         \* "start", "resolved", "opened", "done", "panic", "idle"
    all_files,  \* the paths get_locales_files_path returns
    disk,       \* the files at the resolved paths
    opened,     \* all_translated_files
    idx,        \* the number of iterations of the loop done
    acc,        \* all_merged_value
    error,      \* why the call panicked, "none" otherwise
    content,    \* write_to_file: the Value to write
    filename,   \* write_to_file: the destination path
    dest,       \* write_to_file: the file at the destination path
    result,     \* write_to_file: the text convert_serde_to_string returned
    wpc,        \* "start", "created", "converted", "done", "panic", "idle"
    werror      \* why write_to_file panicked, "none" otherwise

mvars == <<files, ioMode, pc, all_files, disk, opened, idx, acc, error>>

wvars == <<content, filename, dest, result, wpc, werror>>

vars == <<mvars, wvars>>

\* No call of write_to_file.
WriteIdle ==
    /\ content = Null
    /\ filename = MkPath("", <<>>)
    /\ dest = NoFile
    /\ result = EmptyText
    /\ wpc = "idle"
    /\ werror = "none"

\* No call of get_merged_string.
MergeIdle ==
    /\ files = <<>>
    /\ ioMode = "none"
    /\ pc = "idle"
    /\ all_files = <<>>
    /\ disk = <<>>
    /\ opened = <<>>
    /\ idx = 0
    /\ acc = InitialValue
    /\ error = "none"

Init ==
    /\ files \in SeqsUpTo(Refs, MaxFiles)
    /\ ioMode = "none"
    /\ pc = "start"
    /\ all_files = <<>>
    /\ disk = <<>>
    /\ opened = <<>>
    /\ idx = 0
    /\ acc = InitialValue
    /\ error = "none"
    /\ WriteIdle

\* get_locales_files_path(files); files.first().unwrap() panics on no file.
Resolve ==
    /\ pc = "start"
    /\ IF Len(files) = 0
       THEN /\ pc' = "panic"
            /\ error' = "NoFiles"
            /\ UNCHANGED all_files
       ELSE /\ pc' = "resolved"
            /\ all_files' = get_locales_files_path(files)
            /\ UNCHANGED error
    /\ UNCHANGED <<files, ioMode, disk, opened, idx, acc>>
    /\ UNCHANGED wvars

\* open_locales_files(&all_files), on whatever the disk holds; a read that
\* fails does what open_file_to_string does then, whichever path it reads.
Open ==
    /\ pc = "resolved"
    /\ \E d \in DisksOver(Range(all_files)), mode \in {"panic", "empty"} :
          LET o == open_locales_files(d, mode, all_files)
          IN  /\ disk' = d
              /\ ioMode' = IF \E p \in DOMAIN d : d[p] = NoFile THEN mode ELSE "none"
              /\ IF \E j \in 1..Len(o) : ~o[j].read.ok
                 THEN pc' = "panic" /\ error' = "IoError" /\ UNCHANGED opened
                 ELSE pc' = "opened" /\ opened' = o /\ UNCHANGED error
    /\ UNCHANGED <<files, all_files, idx, acc>>
    /\ UNCHANGED wvars

\* for (content, path) in all_translated_files { ... }
Fold ==
    /\ pc = "opened"
    /\ idx < Len(opened)
    /\ LET item == opened[idx + 1]
           r == fold_step(acc, item.read.text, item.path)
       IN  /\ acc' = r.acc
           /\ idx' = idx + 1
           /\ IF r.error = "none"
              THEN UNCHANGED <<pc, error>>
              ELSE pc' = "panic" /\ error' = r.error
    /\ UNCHANGED <<files, ioMode, all_files, disk, opened>>
    /\ UNCHANGED wvars

\* all_merged_value is returned.
Return ==
    /\ pc = "opened"
    /\ idx = Len(opened)
    /\ pc' = "done"
    /\ UNCHANGED <<files, ioMode, all_files, disk, opened, idx, acc, error>>
    /\ UNCHANGED wvars

Next == Resolve \/ Open \/ Fold \/ Return

Spec == Init /\ [][Next]_vars

(***************************************************************************)
(* write_to_file(content, filename).                                       *)
(***************************************************************************)
InitWrite ==
    /\ MergeIdle
    /\ content \in WriteValues
    /\ filename \in Dests
    /\ dest \in Contents
    /\ result = EmptyText
    /\ wpc = "start"
    /\ werror = "none"

\* std::fs::File::create(file_path).unwrap(): the file is created, or
\* truncated when it exists; a failure to do so panics.
Create ==
    /\ wpc = "start"
    /\ \E created \in BOOLEAN :
          IF created
          THEN dest' = File(EmptyText) /\ wpc' = "created" /\ UNCHANGED werror
          ELSE wpc' = "panic" /\ werror' = "IoError" /\ UNCHANGED dest
    /\ UNCHANGED <<content, filename, result>>
    /\ UNCHANGED mvars

\* let result = convert_serde_to_string(content, &ext);
Convert ==
    /\ wpc = "created"
    /\ LET r == convert_serde_to_string(content, get_extension(filename))
       IN  IF r.ok
           THEN result' = r.text /\ wpc' = "converted" /\ UNCHANGED werror
           ELSE wpc' = "panic" /\ werror' = "PrintError" /\ UNCHANGED result
    /\ UNCHANGED <<content, filename, dest>>
    /\ UNCHANGED mvars

\* writeln!(&mut file, "{}", result), a failure of which panics.
Writeln ==
    /\ wpc = "converted"
    /\ \E written \in BOOLEAN :
          IF written
          THEN dest' = File(result) /\ wpc' = "done" /\ UNCHANGED werror
          ELSE wpc' = "panic" /\ werror' = "IoError" /\ UNCHANGED dest
    /\ UNCHANGED <<content, filename, result>>
    /\ UNCHANGED mvars

NextWrite == Create \/ Convert \/ Writeln

SpecWrite == InitWrite /\ [][NextWrite]_vars

(***************************************************************************)
(* The documents that took part in the fold.                               *)
(***************************************************************************)
\* The parse of the j-th text opened.
ParseOf(j) ==
    parse_string_to_serde_json(opened[j].read.text, get_extension(opened[j].path))

\* The indices, among the first n texts opened, of those that parsed.
OkIdx(n) == SelectSeq([j \in 1..n |-> j], LAMBDA j : ParseOf(j).res = "ok")

\* The Values of the first n texts opened that parsed, in order.
ParsedUpTo(n) == [i \in 1..Len(OkIdx(n)) |-> ParseOf(OkIdx(n)[i]).val]

ParsedDocs == ParsedUpTo(Len(opened))

\* The loop is running or has ended normally.
InFold == pc \in {"opened", "done"}

Max(S) == CHOOSE x \in S : \A y \in S : y <= x

(***************************************************************************)
(* r is the deep merge of a and b: two Mappings give a Mapping over the    *)
(* keys of both, a key of one alone keeping its value and a key of both    *)
(* holding the deep merge of its two values; otherwise r is b.             *)
(***************************************************************************)
RECURSIVE DeepMerged(_, _, _)
DeepMerged(r, a, b) ==
    IF IsMapping(a) /\ IsMapping(b)
    THEN /\ IsMapping(r)
         /\ Keys(r) = Keys(a) \cup Keys(b)
         /\ \A k \in Keys(a) \ Keys(b) : r.m[k] = a.m[k]
         /\ \A k \in Keys(b) \ Keys(a) : r.m[k] = b.m[k]
         /\ \A k \in Keys(a) \cap Keys(b) : DeepMerged(r.m[k], a.m[k], b.m[k])
    ELSE r = b

\* C1: when exactly two documents took part in the fold and both are
\* Mappings, the value returned is a Mapping in which a key of the first
\* alone keeps the first's value, a key of the second alone has the second's
\* value, and a key of both holds the deep merge of the two values, so that
\* no key path of either is lost where two Mappings meet.
C1_DeepMergeOfMappings ==
    (pc = "done" /\ Len(ParsedDocs) = 2
        /\ IsMapping(ParsedDocs[1]) /\ IsMapping(ParsedDocs[2]))
    => DeepMerged(acc, ParsedDocs[1], ParsedDocs[2])

\* {ns: {en: a}, ...} then {ns: {zh: b}, ...} returned {ns: {en: a, zh: b}, ...}.
C1_Witness ==
    /\ pc = "done"
    /\ ParsedDocs = <<DocA, DocB>>
    /\ acc.m["ns"] = Mapping([en |-> Str("a"), zh |-> Str("b")])
    /\ acc.m["v"] = Num(2)

\* The index of the last of ds that is no Mapping, 0 when all are Mappings.
LastNonMapping(ds) == Max({0} \cup {i \in 1..Len(ds) : ~IsMapping(ds[i])})

\* C2: where the two values meeting at the root or at a key are not both
\* Mappings the later one stands: after any number of documents folded, a
\* last document that is no Mapping is the accumulator; otherwise, for each
\* key, the value of the last document defining it stands whenever that
\* value, or the value it met there, is no Mapping.
C2_RightBiasedOverride ==
    (InFold /\ Len(ParsedUpTo(idx)) >= 1) =>
        LET ds == ParsedUpTo(idx)
            n == Len(ds)
            r == LastNonMapping(ds)
        IN  IF r = n
            THEN acc = ds[n]
            ELSE /\ IsMapping(acc)
                 /\ \A k \in Keys(acc) :
                      LET D == {i \in (r + 1)..n : k \in Keys(ds[i])}
                          i == Max(D)
                          E == D \ {i}
                      IN  /\ D # {}
                          /\ (\/ ~IsMapping(ds[i].m[k])
                              \/ E = {}
                              \/ ~IsMapping(ds[Max(E)].m[k]))
                             => acc.m[k] = ds[i].m[k]

\* Three documents: at ns a Mapping, then a scalar, then a Mapping again; at k
\* a Sequence and later another Sequence.
C2_Witness ==
    /\ pc = "done"
    /\ ParsedDocs = <<DocA, DocC, DocB>>
    /\ acc.m["ns"] = Mapping([zh |-> Str("b")])
    /\ acc.m["k"] = Sequence(<<Str("z")>>)

\* C3: when no document took part in the fold, the value returned is an empty
\* Mapping.
C3_ZeroDocumentsEmptyMapping ==
    (pc = "done" /\ Len(ParsedDocs) = 0) => acc = EmptyMapping

\* The fold of ds from a, by merge_value.
RECURSIVE FoldAll(_, _)
FoldAll(a, ds) ==
    IF ds = <<>> THEN a ELSE FoldAll(merge_value(a, Head(ds)), Tail(ds))

\* C4: a text that fails to parse is skipped: at every point of the loop the
\* accumulator is the fold of the documents that parsed so far, in their
\* order, a failing text leaving it as it was, and the call never panics on
\* a text whose extension names a format.
C4_ParseFailureSkipped ==
    /\ InFold => acc = FoldAll(InitialValue, ParsedUpTo(idx))
    /\ (pc = "panic" /\ error \notin {"NoFiles", "IoError"}) =>
            /\ idx >= 1
            /\ FormatOf(get_extension(opened[idx].path)) = "unknown"

\* A text that failed to parse between two that parsed.
C4_Witness ==
    /\ pc = "done"
    /\ Len(opened) = 3
    /\ ParseOf(1).res = "ok"
    /\ ParseOf(2).res = "err"
    /\ ParseOf(3).res = "ok"
    /\ acc = FoldAll(InitialValue, <<ParseOf(1).val, ParseOf(3).val>>)
    /\ acc # ParseOf(1).val

(***************************************************************************)
(* Resolution.                                                             *)
(***************************************************************************)
\* The extensions the claims name.
NamedExts == {"yml", "yaml", "json", "toml"}

\* The last part of a file name of two parts or more.
ExtOf(p) == IF Len(p.name) >= 2 THEN p.name[Len(p.name)] ELSE ""

\* get_locales_files_path has returned.
Resolved == pc \notin {"start", "idle"} /\ Len(files) >= 1

\* One reference, of a named extension, was supplied.
SingleSupported == Len(files) = 1 /\ ExtOf(files[1]) \in NamedExts

\* Every leaf of s is held by r at the same key path.
RECURSIVE Holds(_, _)
Holds(r, s) ==
    IF IsMapping(s)
    THEN IsMapping(r) /\ \A k \in Keys(s) : k \in Keys(r) /\ Holds(r.m[k], s.m[k])
    ELSE r = s

\* C5: one reference of extension yml, yaml, json or toml resolves to exactly
\* <parent>/TODO.<ext> followed by the reference itself; and when the
\* supplied file parsed, the value returned holds each of its values at its
\* key path, whatever the companion defined there.
C5_SingleFileResolution ==
    (Resolved /\ SingleSupported) =>
        /\ all_files =
              << [parent |-> files[1].parent, name |-> <<"TODO", ExtOf(files[1])>>],
                 files[1] >>
        /\ (pc = "done" /\ ParseOf(2).res = "ok") => Holds(acc, ParseOf(2).val)

\* The companion and the supplied file both define ns and k, differently.
C5_Witness ==
    /\ pc = "done"
    /\ SingleSupported
    /\ Len(all_files) = 2
    /\ all_files[1].name[1] = "TODO"
    /\ disk[all_files[1]] = File(Text("yaml", DocA))
    /\ disk[all_files[2]] = File(Text("json", DocB))
    /\ acc.m["k"] = Sequence(<<Str("z")>>)
    /\ acc.m["ns"].m["zh"] = Str("b")

\* The indices of the references supplied whose extension is a named one.
KeptIdx == {i \in 1..Len(files) : ExtOf(files[i]) \in NamedExts}

\* The j-th smallest index of KeptIdx.
NthKept(j) == CHOOSE i \in KeptIdx : Cardinality({h \in KeptIdx : h <= i}) = j

\* C6: two references or more resolve to exactly those of extension yml,
\* yaml, json or toml, each once per occurrence and in the order supplied;
\* the others are dropped without a panic and no TODO companion is added.
C6_MultiFileResolution ==
    (Resolved /\ Len(files) >= 2) =>
        /\ Len(all_files) = Cardinality(KeptIdx)
        /\ \A j \in 1..Len(all_files) : all_files[j] = files[NthKept(j)]
        /\ \A j \in 1..Len(all_files) : all_files[j].name[1] # "TODO"
        /\ error # "NoFiles"

\* Filtering left one reference of three, and no companion came with it.
C6_Witness ==
    /\ pc = "done"
    /\ Len(files) = 3
    /\ ExtOf(files[1]) = "txt"
    /\ ExtOf(files[2]) = "toml"
    /\ ExtOf(files[3]) = "txt"
    /\ all_files = <<files[2]>>
    /\ acc = DocD

\* The reads are over: every resolved path has been read, or one read panicked.
ReadsOver == InFold \/ (pc = "panic" /\ error \in {"IoError", "UnknownFormat"})

\* C7: a failed read of the synthesized TODO companion makes it contribute
\* nothing, the call returning the supplied file's own content; a failed
\* read of a file the caller supplied is fatal.
C7_ReadFailureAsymmetry ==
    /\ (ReadsOver /\ SingleSupported
            /\ disk[all_files[1]] = NoFile /\ disk[files[1]] # NoFile)
        => /\ pc # "panic"
           /\ pc = "done" =>
                 acc = (IF ParseOf(2).res = "ok" THEN ParseOf(2).val ELSE InitialValue)
    /\ (ReadsOver /\ \E j \in 1..Len(files) :
                        files[j] \in DOMAIN disk /\ disk[files[j]] = NoFile)
        => pc = "panic" /\ error = "IoError"

\* C8: when exactly one document took part in the fold, the accumulator is
\* that document's Value, whatever its shape.
C8_OneDocumentUnchanged ==
    (InFold /\ Len(ParsedUpTo(idx)) = 1) => acc = ParsedUpTo(idx)[1]

\* A Sequence was the only document that parsed, after one that did not.
C8_Witness ==
    /\ pc = "done"
    /\ Len(opened) = 2
    /\ ParseOf(1).res = "err"
    /\ ParsedDocs = <<Sequence(<<Str("x")>>)>>
    /\ acc = Sequence(<<Str("x")>>)

\* C9: of two references or more, those of an unrecognized extension are
\* dropped and never make the call panic; a sole reference of an
\* unrecognized extension resolves to itself alone, with no TODO companion,
\* and the call never returns a value: once the file is read it panics with
\* UnknownFormat before anything is merged.
C9_UnknownExtensionAsymmetry ==
    /\ (Resolved /\ Len(files) >= 2) =>
          /\ \A j \in 1..Len(all_files) : ExtOf(all_files[j]) \in NamedExts
          /\ \A i \in 1..Len(files) :
                ExtOf(files[i]) \notin NamedExts => files[i] \notin Range(all_files)
          /\ error # "UnknownFormat"
    /\ (Resolved /\ Len(files) = 1 /\ ExtOf(files[1]) \notin NamedExts) =>
          /\ all_files = <<files[1]>>
          /\ pc # "done"
          /\ pc = "opened" => idx = 0
          /\ pc = "panic" => /\ error \in {"IoError", "UnknownFormat"}
                             /\ acc = InitialValue
                             /\ error = "IoError" => disk[files[1]] = NoFile

\* A sole reference of extension txt, read, ended the call with UnknownFormat.
C9_Witness ==
    /\ pc = "panic"
    /\ error = "UnknownFormat"
    /\ Len(files) = 1
    /\ ExtOf(files[1]) = "txt"
    /\ all_files = files
    /\ disk[files[1]] # NoFile

(***************************************************************************)
(* write_to_file.                                                          *)
(***************************************************************************)
\* The printer fails on the Value and the destination of this call.
PrintFails ==
    \/ ExtOf(filename) \notin NamedExts
    \/ ExtOf(filename) = "toml" /\ ~TomlPrints(content)

\* C10: when printing fails, no step of write_to_file creates or truncates the
\* destination file: its contents stay as they were.
C10_PrintFailureLeavesDestination ==
    [][(wpc # "idle" /\ PrintFails) => dest' = dest]_vars

=============================================================================
